---- MODULE Spec2Model ----
(***************************************************************************)
(* A model of StatusUpdater (src/src/structures/StatusUpdater.ts): one     *)
(* instance, its construction, the promise chain of _init/_getStatuses on  *)
(* the JavaScript event loop, the `statuses` accessor, updateStatus and    *)
(* _chooseActivity.  Arrays and activity objects are heap objects, so that *)
(* aliasing between a caller's activity and a pool element is visible.     *)
(***************************************************************************)
EXTENDS Integers, Sequences, FiniteSets, TLC

VARIABLES
  pc,          \* "new" | "rejected" | "live": the constructor's outcome
  arg,         \* the statuses argument the constructor was called with
  statusUrl,   \* this.statusUrl   (option)
  _statuses,   \* this._statuses   (reference to an array, or UndefRef)
  isReady,     \* this.isReady
  microtasks,  \* promise reactions queued on the event loop
  inCtorTask,  \* the task that called the constructor is still running
  fetchState,  \* "none" | "pending" | "ok" | "failed": the Axios.get promise
  fetchCount,  \* number of Axios.get calls made by the instance
  unhandled,   \* the rejection rethrown by _init's catch reached the host
  response,    \* the array the server answered with (statuses.data)
  heap,        \* contents of the three arrays, by reference
  counters,    \* the host's live cache sizes
  parserData,  \* VariableParser's data
  lastRead,    \* the last read of the `statuses` accessor by the host
  lastCall     \* the last updateStatus call

vars == <<pc, arg, statusUrl, _statuses, isReady, microtasks, inCtorTask,
          fetchState, fetchCount, unhandled, response, heap, counters,
          parserData, lastRead, lastCall>>

\* ---------------------------------------------------------------- bounds
\* Math.random() is drawn from {0/RandDen, ..., (RandDen-1)/RandDen}.
RandDen == 7
\* Pool elements 1..MaxAlias may be passed back as the explicit activity.
MaxAlias == 1

\* ------------------------------------------------------------ JS values
None == <<>>
Some(v) == <<v>>

Lit(s) == [kind |-> "lit", text |-> s]
Var(k) == [kind |-> "var", text |-> k]

\* An ActivityOptions object; a name is the token sequence of its string.
Tpl(t, n) == [type |-> t, name |-> n, shardID |-> None]

defaultStatuses ==
  << Tpl(Some("PLAYING"),   <<Lit("with "), Var("users"), Lit(" users")>>),
     Tpl(Some("LISTENING"), <<Var("users"), Lit(" users")>>),
     Tpl(Some("WATCHING"),  <<Lit("over "), Var("users"), Lit(" users")>>),
     Tpl(Some("PLAYING"),   <<Lit("in "), Var("guilds"), Lit(" servers")>>),
     Tpl(Some("WATCHING"),  <<Var("website")>>),
     Tpl(Some("PLAYING"),   <<Var("prefix"), Lit("help for help")>>),
     Tpl(Some("WATCHING"),  <<Var("guilds"), Lit(" servers")>>) >>

\* References to the arrays the instance can hold or return.
UndefRef   == "undefined"
DefaultRef == "defaultStatuses"
InlineRef  == "inline"
FetchedRef == "fetched"

\* Inline arrays a caller may pass, and arrays a server may answer with.
InlinePools ==
  { <<>>,
    << Tpl(None, <<>>) >>,
    << Tpl(Some("PLAYING"), <<Lit("with "), Var("users"), Lit(" users")>>),
       Tpl(Some("WATCHING"), <<Var("channels"), Lit(" channels")>>) >> }

FetchedPools ==
  { << Tpl(Some("LISTENING"), <<Var("guilds"), Lit(" guilds")>>) >>,
    << Tpl(None, <<Lit("hello")>>), Tpl(Some("WATCHING"), <<>>) >> }

\* The values the constructor's third parameter is called with.
ArgKinds == {"undefined", "null", "zero", "false", "emptystr",
             "nonurl", "url", "array", "object"}
Args == { [kind |-> k, pool |-> <<>>] : k \in ArgKinds \ {"array"} }
        \cup { [kind |-> "array", pool |-> p] : p \in InlinePools }

\* JavaScript truthiness of the argument: `if (statuses)`.
Truthy(a) == a.kind \in {"nonurl", "url", "array", "object"}
IsString(a) == a.kind \in {"emptystr", "nonurl", "url"}
IsArray(a) == a.kind = "array"
isUrl(a) == a.kind = "url"

UserCounts  == {41, 42}
GuildCounts == {3}
ChannelCounts == {5}
Keys == {"users", "guilds", "channels", "prefix", "website"}

NoCall == [made |-> FALSE, ready |-> FALSE, explicit |-> "absent", shardId |-> None,
           outcome |-> "none", calls |-> 0, pool |-> UndefRef, idx |-> 0,
           template |-> Tpl(None, <<>>),
           counters |-> [users |-> 0, guilds |-> 0, channels |-> 0],
           applied |-> [type |-> "", name |-> "", shardID |-> None]]
NoRead == [made |-> FALSE, ready |-> FALSE, fetch |-> "none", value |-> UndefRef]

\* ------------------------------------------------------------------ Init
Init ==
  /\ pc = "new"
  /\ arg = [kind |-> "undefined", pool |-> <<>>]
  /\ statusUrl = None
  /\ _statuses = UndefRef
  /\ isReady = FALSE
  /\ microtasks = <<>>
  /\ inCtorTask = FALSE
  /\ fetchState = "none"
  /\ fetchCount = 0
  /\ unhandled = FALSE
  /\ response = <<>>
  /\ heap = [r \in {DefaultRef, InlineRef, FetchedRef} |->
               IF r = DefaultRef THEN defaultStatuses ELSE <<>>]
  /\ counters \in [users : UserCounts, guilds : GuildCounts,
                   channels : ChannelCounts]
  /\ parserData = [k \in Keys |-> None]
  /\ lastRead = NoRead
  /\ lastCall = NoCall

\* ----------------------------------------------------------- constructor
\* Whether the constructor throws for this argument (lines 41-47).
CtorThrows(a) ==
  /\ Truthy(a)
  /\ \/ IsString(a) /\ ~isUrl(a)
     \/ ~IsString(a) /\ ~IsArray(a)

\* this.statusUrl = statuses: line 44.
CtorStatusUrl(a) == IF Truthy(a) /\ IsString(a) THEN Some("url") ELSE None

\* The assignment of the inline array left out.
CtorStatuses_Dropped(a) == UndefRef

\* this._statuses = statuses: line 45.
CtorStatuses(a) == IF Truthy(a) /\ IsArray(a) THEN InlineRef ELSE UndefRef

\* constructor, with the synchronous part of _init() and _getStatuses():
\* a URL starts Axios.get and suspends; otherwise the async function
\* returns at once and the .then reaction is queued as a microtask.
Construct(a) ==
  /\ pc = "new"
  /\ arg' = a
  /\ IF CtorThrows(a)
       THEN /\ pc' = "rejected"
            /\ UNCHANGED <<statusUrl, _statuses, isReady, microtasks,
                           inCtorTask, fetchState, fetchCount, heap>>
       ELSE /\ pc' = "live"
            /\ statusUrl' = CtorStatusUrl(a)
            /\ _statuses' = CtorStatuses(a)
            /\ heap' = [heap EXCEPT ![InlineRef] = a.pool]
            /\ isReady' = FALSE
            /\ inCtorTask' = TRUE
            /\ IF statusUrl' # None
                 THEN /\ fetchState' = "pending"
                      /\ fetchCount' = fetchCount + 1
                      /\ microtasks' = <<>>
                 ELSE /\ microtasks' = <<"initThen">>
                      /\ UNCHANGED <<fetchState, fetchCount>>
  /\ UNCHANGED <<unhandled, response, counters, parserData, lastRead, lastCall>>

\* Axios.get settles in a later task of the event loop; the resumption of
\* _getStatuses is queued as a microtask (line 67).
FetchResolve(data) ==
  /\ pc = "live" /\ fetchState = "pending"
  /\ ~inCtorTask /\ microtasks = <<>>
  /\ fetchState' = "ok"
  /\ response' = data
  /\ heap' = [heap EXCEPT ![FetchedRef] = data]
  /\ microtasks' = <<"getStatusesResume">>
  /\ UNCHANGED <<pc, arg, statusUrl, _statuses, isReady, inCtorTask,
                 fetchCount, unhandled, counters, parserData, lastRead, lastCall>>

FetchReject ==
  /\ pc = "live" /\ fetchState = "pending"
  /\ ~inCtorTask /\ microtasks = <<>>
  /\ fetchState' = "failed"
  /\ microtasks' = <<"getStatusesThrow">>
  /\ UNCHANGED <<pc, arg, statusUrl, _statuses, isReady, inCtorTask, fetchCount,
                 unhandled, response, heap, counters, parserData, lastRead, lastCall>>

\* The synchronous code that called the constructor returns to the loop.
EndCtorTask ==
  /\ inCtorTask
  /\ inCtorTask' = FALSE
  /\ UNCHANGED <<pc, arg, statusUrl, _statuses, isReady, microtasks, fetchState,
                 fetchCount, unhandled, response, heap, counters, parserData,
                 lastRead, lastCall>>

MicrotaskReady(name) ==
  /\ pc = "live" /\ ~inCtorTask
  /\ microtasks # <<>> /\ Head(microtasks) = name

\* _getStatuses after the await: lines 68-69.
GetStatusesResume ==
  /\ MicrotaskReady("getStatusesResume")
  /\ _statuses' = FetchedRef
  /\ microtasks' = Tail(microtasks) \o <<"initThen">>
  /\ UNCHANGED <<pc, arg, statusUrl, isReady, inCtorTask, fetchState, fetchCount,
                 unhandled, response, heap, counters, parserData, lastRead, lastCall>>

\* _getStatuses swallowing the failure, so that .then runs after it.
GetStatusesThrow_Swallowed ==
  /\ MicrotaskReady("getStatusesThrow")
  /\ microtasks' = Tail(microtasks) \o <<"initThen">>
  /\ UNCHANGED <<pc, arg, statusUrl, _statuses, isReady, inCtorTask, fetchState,
                 fetchCount, unhandled, response, heap, counters, parserData,
                 lastRead, lastCall>>

\* The await throws: the async function rejects, .then is skipped.
GetStatusesThrow ==
  /\ MicrotaskReady("getStatusesThrow")
  /\ microtasks' = Tail(microtasks) \o <<"initCatch">>
  /\ UNCHANGED <<pc, arg, statusUrl, _statuses, isReady, inCtorTask, fetchState,
                 fetchCount, unhandled, response, heap, counters, parserData,
                 lastRead, lastCall>>

\* The .then reaction of _init: line 56.
InitThen ==
  /\ MicrotaskReady("initThen")
  /\ isReady' = TRUE
  /\ microtasks' = Tail(microtasks)
  /\ UNCHANGED <<pc, arg, statusUrl, _statuses, inCtorTask, fetchState, fetchCount,
                 unhandled, response, heap, counters, parserData, lastRead, lastCall>>

\* A .catch that marks the updater ready instead of rethrowing.
InitCatch_MarksReady ==
  /\ MicrotaskReady("initCatch")
  /\ isReady' = TRUE
  /\ microtasks' = Tail(microtasks)
  /\ UNCHANGED <<pc, arg, statusUrl, _statuses, inCtorTask, fetchState, fetchCount,
                 unhandled, response, heap, counters, parserData, lastRead, lastCall>>

\* The .catch reaction of _init rethrows: lines 57-59.
InitCatch ==
  /\ MicrotaskReady("initCatch")
  /\ unhandled' = TRUE
  /\ microtasks' = Tail(microtasks)
  /\ UNCHANGED <<pc, arg, statusUrl, _statuses, isReady, inCtorTask, fetchState,
                 fetchCount, response, heap, counters, parserData, lastRead, lastCall>>

\* ------------------------------------------------------------- accessor
\* The accessor without its readiness check.
statuses_Ungated == _statuses

\* get statuses (): lines 86-90.
statuses == IF ~isReady THEN DefaultRef ELSE _statuses

\* Host code runs in the constructing task or in a later task; never in
\* the middle of a microtask drain.
HostTurn == pc = "live" /\ (inCtorTask \/ microtasks = <<>>)

Read ==
  /\ HostTurn
  /\ lastRead' = [made |-> TRUE, ready |-> isReady, fetch |-> fetchState,
                  value |-> statuses]
  /\ UNCHANGED <<pc, arg, statusUrl, _statuses, isReady, microtasks, inCtorTask,
                 fetchState, fetchCount, unhandled, response, heap, counters,
                 parserData, lastCall>>

\* The host's caches change size.
HostChange(c) ==
  /\ HostTurn
  /\ c # counters
  /\ counters' = c
  /\ UNCHANGED <<pc, arg, statusUrl, _statuses, isReady, microtasks, inCtorTask,
                 fetchState, fetchCount, unhandled, response, heap, parserData,
                 lastRead, lastCall>>

\* --------------------------------------------------------- VariableParser
\* updateData(partial): merge, given keys overwrite, other keys persist.
updateData(data, partial) ==
  [k \in Keys |-> IF k \in DOMAIN partial THEN Some(partial[k]) ELSE data[k]]

\* parse(template): every {identifier} with a known value is replaced by
\* the stringified value, an unknown one is left as written.
RECURSIVE parse(_, _)
parse(tokens, data) ==
  IF tokens = <<>> THEN ""
  ELSE LET t == Head(tokens)
           piece == IF t.kind = "lit" THEN t.text
                    ELSE IF data[t.text] # None THEN ToString(data[t.text][1])
                    ELSE "{" \o t.text \o "}"
       IN piece \o parse(Tail(tokens), data)

\* The string a token sequence stands for.
RECURSIVE Raw(_)
Raw(tokens) ==
  IF tokens = <<>> THEN ""
  ELSE LET t == Head(tokens)
       IN (IF t.kind = "lit" THEN t.text ELSE "{" \o t.text \o "}")
          \o Raw(Tail(tokens))

\* _updateParserData (): lines 78-80.
_updateParserData == updateData(parserData, counters)

\* --------------------------------------------------------- _chooseActivity
\* ~~(Math.random() * length) for Math.random() = k / RandDen, as a
\* 1-based index into the sequence.
RandomIndex(k, len) == ((k * len) \div RandDen) + 1

\* _chooseActivity (): lines 103-108, with the parser data `data`.
\* `threw` is a TypeError: `statuses` is undefined, or the selected
\* element is.
_chooseActivity(k, data) ==
  LET pool == statuses
      len  == IF pool = UndefRef THEN 0 ELSE Len(heap[pool])
      idx  == RandomIndex(k, len)
  IN IF pool = UndefRef \/ idx > len
       THEN [threw |-> TRUE, pool |-> pool, idx |-> idx,
             template |-> Tpl(None, <<>>),
             details |-> [type |-> "", name |-> "", shardID |-> None]]
       ELSE LET info == heap[pool][idx]
                name == parse(info.name, data)
            IN [threw |-> FALSE, pool |-> pool, idx |-> idx,
                template |-> info,
                details |-> [type |-> IF info.type = None \/ info.type = Some("")
                                        THEN "PLAYING" ELSE info.type[1],
                             name |-> IF name = "" THEN "a game" ELSE name,
                             shardID |-> info.shardID]]

\* ------------------------------------------------------------ updateStatus
\* `if (shardId)`: line 99.
ShardIdGiven(shardId) == shardId # None /\ shardId[1] # 0

\* An activity object as the host's setActivity receives it.
AsApplied(t) == [type |-> IF t.type = None THEN "" ELSE t.type[1],
                 name |-> Raw(t.name), shardID |-> t.shardID]

\* An activity object the caller builds for the call.
FreshActivity == Tpl(Some("COMPETING"), <<Lit("for "), Var("users")>>)

\* shardId is omitted, shard 0, or a later shard.
ShardIds == {None, Some(0), Some(1)}

\* updateStatus(undefined, shardId): lines 96-101, no explicit activity.
UpdateStatusChosen(shardId, k) ==
  /\ HostTurn
  /\ parserData' = _updateParserData
  /\ LET c == _chooseActivity(k, parserData')
         applied == IF ShardIdGiven(shardId)
                      THEN [c.details EXCEPT !.shardID = shardId]
                      ELSE c.details
     IN lastCall' = [made |-> TRUE, ready |-> isReady, explicit |-> "absent", shardId |-> shardId,
                     outcome |-> IF c.threw THEN "threw" ELSE "applied",
                     calls |-> IF c.threw THEN 0 ELSE 1,
                     pool |-> c.pool, idx |-> c.idx, template |-> c.template,
                     counters |-> counters,
                     applied |-> IF c.threw THEN NoCall.applied ELSE applied]
  /\ UNCHANGED <<pc, arg, statusUrl, _statuses, isReady, microtasks, inCtorTask,
                 fetchState, fetchCount, unhandled, response, heap, counters,
                 lastRead>>

\* updateStatus(activity, shardId) with an object of the caller's own.
UpdateStatusFresh(shardId) ==
  /\ HostTurn
  /\ parserData' = _updateParserData
  /\ LET obj == IF ShardIdGiven(shardId)
                  THEN [FreshActivity EXCEPT !.shardID = shardId]
                  ELSE FreshActivity
     IN lastCall' = [made |-> TRUE, ready |-> isReady, explicit |-> "fresh", shardId |-> shardId,
                     outcome |-> "applied", calls |-> 1,
                     pool |-> UndefRef, idx |-> 0, template |-> FreshActivity,
                     counters |-> counters, applied |-> AsApplied(obj)]
  /\ UNCHANGED <<pc, arg, statusUrl, _statuses, isReady, microtasks, inCtorTask,
                 fetchState, fetchCount, unhandled, response, heap, counters,
                 lastRead>>

\* updateStatus(updater.statuses[i-1], shardId): the explicit activity is
\* an element of the pool the accessor returns; line 99 writes to it.
UpdateStatusElement(i, shardId) ==
  /\ HostTurn
  /\ statuses # UndefRef
  /\ i \in 1..Len(heap[statuses])
  /\ parserData' = _updateParserData
  /\ LET obj == IF ShardIdGiven(shardId)
                  THEN [heap[statuses][i] EXCEPT !.shardID = shardId]
                  ELSE heap[statuses][i]
     IN /\ heap' = [heap EXCEPT ![statuses][i] = obj]
        /\ lastCall' = [made |-> TRUE, ready |-> isReady, explicit |-> "element", shardId |-> shardId,
                        outcome |-> "applied", calls |-> 1,
                        pool |-> statuses, idx |-> i,
                        template |-> heap[statuses][i],
                        counters |-> counters, applied |-> AsApplied(obj)]
  /\ UNCHANGED <<pc, arg, statusUrl, _statuses, isReady, microtasks, inCtorTask,
                 fetchState, fetchCount, unhandled, response, counters, lastRead>>

Next ==
  \/ \E a \in Args : Construct(a)
  \/ \E d \in FetchedPools : FetchResolve(d)
  \/ FetchReject
  \/ EndCtorTask
  \/ GetStatusesResume
  \/ GetStatusesThrow
  \/ InitThen
  \/ InitCatch
  \/ Read
  \/ \E c \in [users : UserCounts, guilds : GuildCounts, channels : ChannelCounts] :
       HostChange(c)
  \/ \E s \in ShardIds, k \in 0..(RandDen - 1) : UpdateStatusChosen(s, k)
  \/ \E s \in ShardIds : UpdateStatusFresh(s)
  \/ \E s \in ShardIds, i \in 1..MaxAlias : UpdateStatusElement(i, s)

Spec == Init /\ [][Next]_vars

\* ================================================================ claims
\* The pool a URL or an inline array resolves to.
ResolvedPool == IF arg.kind = "url" THEN FetchedRef ELSE InlineRef

\* The initialisation started by the constructor has run to its end.
InitSettled ==
  pc = "live" /\ ~inCtorTask /\ microtasks = <<>> /\ fetchState # "pending"

\* C1: constructed with no statuses argument, the accessor returns the
\* built-in pool of seven templates in every state, before and after READY.
C1_DefaultPoolAlways ==
  (pc = "live" /\ arg.kind = "undefined") =>
     (statuses = DefaultRef /\ Len(heap[statuses]) = 7)

\* C2: constructed with a URL or an inline array, every read of the pool
\* (by the host, or by _chooseActivity inside updateStatus) made while NOT
\* READY returns the built-in default array, and every read made once
\* READY returns the fetched array (URL) or the supplied array (inline).
C2_ReadsFollowReadiness ==
  (pc = "live" /\ arg.kind \in {"url", "array"}) =>
     /\ lastRead.made =>
          lastRead.value = (IF lastRead.ready THEN ResolvedPool ELSE DefaultRef)
     /\ (lastCall.made /\ lastCall.explicit = "absent") =>
          lastCall.pool = (IF lastCall.ready THEN ResolvedPool ELSE DefaultRef)
     /\ isReady => (arg.kind = "url" => fetchState = "ok")

C2_Witness ==
  /\ arg.kind = "url" /\ lastRead.made /\ lastRead.ready
  /\ lastRead.value = FetchedRef
  /\ lastCall.made /\ lastCall.explicit = "absent" /\ ~lastCall.ready

\* C3 as written: constructed with an inline list, the updater is READY
\* and the accessor returns the list when the constructor returns, before
\* any scheduled callback runs.
C3_ReadyAtConstruction ==
  (pc = "live" /\ arg.kind = "array" /\ inCtorTask) =>
     (isReady /\ statuses = InlineRef)

\* C3 amended: constructed with an inline list, the list is stored as the
\* instance's pool during construction and no fetch is started, but the
\* updater is not READY when the constructor returns: until the queued
\* continuation of the initialisation runs the flag is false and the
\* accessor returns the built-in default pool; once it has run the flag
\* is true and the accessor returns the inline list.
C3_ReadyAfterContinuation ==
  (pc = "live" /\ arg.kind = "array") =>
     /\ _statuses = InlineRef
     /\ fetchCount = 0 /\ fetchState = "none"
     /\ inCtorTask => /\ ~isReady /\ statuses = DefaultRef
                      /\ microtasks = <<"initThen">>
                      /\ heap[InlineRef] = arg.pool
     /\ microtasks # <<>> => ~isReady /\ statuses = DefaultRef
     /\ microtasks = <<>> => isReady /\ statuses = InlineRef

C3_Witness ==
  /\ pc = "live" /\ arg.kind = "array" /\ arg.pool # <<>>
  /\ inCtorTask /\ lastRead.made /\ lastRead.value = DefaultRef

\* C4: constructed with a URL whose fetch fails, the updater never becomes
\* READY, exactly one fetch attempt was made, and the accessor returns the
\* built-in default pool in every later state.
C4_FailedFetchStaysDefault ==
  /\ fetchCount <= 1
  /\ fetchState = "failed" =>
       /\ ~isReady
       /\ fetchCount = 1
       /\ statuses = DefaultRef
       /\ lastRead.made => lastRead.value = DefaultRef
       /\ (lastCall.made /\ lastCall.explicit = "absent") =>
            lastCall.pool = DefaultRef

C4_Witness ==
  /\ fetchState = "failed" /\ unhandled
  /\ lastRead.made /\ lastRead.fetch = "failed"
  /\ lastCall.made /\ lastCall.explicit = "absent"

\* C5: construction is rejected for every string that is not a valid URL
\* (the empty string included) and for every argument that is neither an
\* array, a string nor undefined (null, 0 and false included); a rejected
\* construction starts no fetch and no initialisation.
C5_InvalidArgsRejected ==
  (pc # "new" /\ arg.kind \in {"emptystr", "nonurl", "null", "zero",
                               "false", "object"}) =>
     /\ pc = "rejected"
     /\ fetchCount = 0 /\ fetchState = "none"
     /\ microtasks = <<>> /\ ~isReady

\* C6: a shard id supplied to updateStatus (shard 0 included) is carried
\* by the activity handed to setActivity; with the shard id omitted the
\* shard field of the applied activity is unset.
C6_ShardIdApplied ==
  (lastCall.made /\ lastCall.outcome = "applied") =>
     /\ lastCall.shardId # None => lastCall.applied.shardID = lastCall.shardId
     /\ lastCall.shardId = None => lastCall.applied.shardID = None

\* The name _chooseActivity renders from the counters of the call itself.
RenderedNow(call) ==
  LET n == parse(call.template.name,
                 updateData([k \in Keys |-> None], call.counters))
  IN IF n = "" THEN "a game" ELSE n

\* C7: every updateStatus call without an explicit activity refreshes the
\* parser from the live counters, then chooses and renders, then calls
\* setActivity exactly once with the rendered result; with users = 42 and
\* the template {PLAYING, "with {users} users"} the applied activity is
\* named "with 42 users" and of kind PLAYING.
C7_RefreshRenderApplyOnce ==
  (lastCall.made /\ lastCall.explicit = "absent") =>
     /\ lastCall.calls = 1
     /\ lastCall.applied.name = RenderedNow(lastCall)
     /\ (lastCall.counters.users = 42
         /\ lastCall.template.type = Some("PLAYING")
         /\ lastCall.template.name = <<Lit("with "), Var("users"), Lit(" users")>>)
        => (lastCall.applied.name = "with 42 users"
            /\ lastCall.applied.type = "PLAYING")

\* C8: for every pool the accessor returns (default, inline of any length,
\* fetched) and every random value, _chooseActivity selects an index within
\* the pool and returns a non-empty kind and a non-empty name; it never
\* fails.
C8_ChooseNeverFails ==
  (lastCall.made /\ lastCall.explicit = "absent" /\ lastCall.pool # UndefRef) =>
     /\ lastCall.outcome = "applied"
     /\ lastCall.idx \in 1..Len(heap[lastCall.pool])
     /\ lastCall.applied.type # ""
     /\ lastCall.applied.name # ""

\* C9 as written: once the construction-time fetch attempt has completed,
\* by success or by failure, and the initialisation has run to its end,
\* the readiness flag is true.
C9_ReadyAfterAnyCompletion == InitSettled => isReady

\* C9 amended: the readiness flag starts false and turns true at most
\* once, by the .then continuation of the initialisation, which runs only
\* when the fetch attempt succeeded or no fetch was needed; after a failed
\* fetch attempt it stays false; once true it never returns to false.
C9_ReadyOnceOnSuccess ==
  [][ /\ pc = "new" => ~isReady
      /\ fetchState' = "failed" => ~isReady'
      /\ (InitSettled /\ fetchState # "failed")' => isReady'
      /\ isReady => isReady'
      /\ (~isReady /\ isReady') =>
           /\ fetchState \in {"none", "ok"}
           /\ microtasks = <<"initThen">> /\ microtasks' = <<>> ]_vars

C9_Witness == isReady /\ fetchState = "ok" /\ InitSettled

\* C10: no sequence of updateStatus calls changes a field of a template
\* of the built-in default pool or of the instance's resolved pool.
C10_PoolsReadOnly ==
  /\ heap[DefaultRef] = defaultStatuses
  /\ (pc = "live" /\ arg.kind = "array") => heap[InlineRef] = arg.pool
  /\ fetchState = "ok" => heap[FetchedRef] = response
====
